---- MODULE Spec2Model ----
(***************************************************************************)
(* Model of helixerio/live-queries-client:                                 *)
(*   src/src/sse.ts           the SSE stream engine (class SSE)            *)
(*   src/src/subscription.ts  subscribe(): the live-query reconciler       *)
(*                                                                         *)
(* Text is a sequence of one-character strings, so that the regular        *)
(* expressions, trims and substrings of the source are computed character  *)
(* by character.  Offsets are 0-based as in JavaScript.                    *)
(***************************************************************************)
EXTENDS Integers, Sequences, FiniteSets, TLC

----------------------------------------------------------------------------
(* Characters and JavaScript string primitives                             *)

LF == "\n"
CR == "\r"
SP == " "

\* the characters String.prototype.trim removes, restricted to the alphabet
WhiteSpace == {SP, LF, CR, "\t"}

\* sse.ts:1
FIELD_SEPARATOR == ":"

\* s.substring(a, b)
Substring(s, a, b) == SubSeq(s, a + 1, b)

\* s.charAt(i), "" past the end
CharAt(s, i) == IF i >= 0 /\ i + 1 <= Len(s) THEN s[i + 1] ELSE ""

RECURSIVE trimLeft(_)
trimLeft(s) ==
    IF s # <<>> /\ Head(s) \in WhiteSpace THEN trimLeft(Tail(s)) ELSE s

RECURSIVE trimEnd(_)
trimEnd(s) ==
    IF s # <<>> /\ s[Len(s)] \in WhiteSpace
    THEN trimEnd(SubSeq(s, 1, Len(s) - 1))
    ELSE s

trim(s) == trimEnd(trimLeft(s))

\* s.indexOf(c): 0-based, -1 when absent
RECURSIVE IndexFrom(_, _, _)
IndexFrom(s, c, i) ==
    IF i >= Len(s) THEN -1
    ELSE IF s[i + 1] = c THEN i
    ELSE IndexFrom(s, c, i + 1)

indexOf(s, c) == IndexFrom(s, c, 0)

----------------------------------------------------------------------------
(* data.split(/(\r\n|\r|\n){2}/g)                           sse.ts:195     *)

\* The ends of the matches of (\r\n|\r|\n) at offset i, in the order the
\* regular expression engine tries the alternatives.
LineBreakAlts(s, i) ==
    IF CharAt(s, i) = CR /\ CharAt(s, i + 1) = LF THEN <<i + 2, i + 1>>
    ELSE IF CharAt(s, i) = CR \/ CharAt(s, i) = LF THEN <<i + 1>>
    ELSE <<>>

\* The match of (\r\n|\r|\n){2} at offset i with backtracking: <<>> when
\* there is none, else <<start of the last repetition, end of the match>>.
BlankLineMatch(s, i) ==
    LET a1 == LineBreakAlts(s, i)
        second(e1) == IF LineBreakAlts(s, e1) = <<>> THEN <<>>
                      ELSE <<e1, LineBreakAlts(s, e1)[1]>>
    IN  IF a1 = <<>> THEN <<>>
        ELSE IF second(a1[1]) # <<>> THEN second(a1[1])
        ELSE IF Len(a1) > 1 THEN second(a1[2])
        ELSE <<>>

\* String.prototype.split with a capturing group: the pieces between the
\* matches, each match replaced by what its group captured last.
RECURSIVE SplitBlankFrom(_, _, _)
SplitBlankFrom(s, p, q) ==
    IF q >= Len(s) THEN << Substring(s, p, Len(s)) >>
    ELSE LET m == BlankLineMatch(s, q)
         IN  IF m = <<>> THEN SplitBlankFrom(s, p, q + 1)
             ELSE << Substring(s, p, q), Substring(s, m[1], m[2]) >>
                  \o SplitBlankFrom(s, m[2], m[2])

SplitBlankLines(s) == SplitBlankFrom(s, 0, 0)

----------------------------------------------------------------------------
(* chunk.split(/\n|\r\n|\r/)                                sse.ts:229     *)

LineBreakEnd(s, i) ==
    IF CharAt(s, i) = LF THEN i + 1
    ELSE IF CharAt(s, i) = CR /\ CharAt(s, i + 1) = LF THEN i + 2
    ELSE IF CharAt(s, i) = CR THEN i + 1
    ELSE -1

RECURSIVE SplitLinesFrom(_, _, _)
SplitLinesFrom(s, p, q) ==
    IF q >= Len(s) THEN << Substring(s, p, Len(s)) >>
    ELSE IF LineBreakEnd(s, q) = -1 THEN SplitLinesFrom(s, p, q + 1)
    ELSE << Substring(s, p, q) >>
         \o SplitLinesFrom(s, LineBreakEnd(s, q), LineBreakEnd(s, q))

SplitLines(s) == SplitLinesFrom(s, 0, 0)

----------------------------------------------------------------------------
(* Names that occur in the source as string literals                       *)

S_id == <<"i", "d">>
S_retry == <<"r", "e", "t", "r", "y">>
S_data == <<"d", "a", "t", "a">>
S_event == <<"e", "v", "e", "n", "t">>
S_message == <<"m", "e", "s", "s", "a", "g", "e">>
S_next == <<"n", "e", "x", "t">>
S_open == <<"o", "p", "e", "n">>
S_error == <<"e", "r", "r", "o", "r">>
S_abort == <<"a", "b", "o", "r", "t">>
S_readystatechange ==
    <<"r", "e", "a", "d", "y", "s", "t", "a", "t", "e",
      "c", "h", "a", "n", "g", "e">>

\* a string that stands for the JavaScript null in a field that is
\* otherwise a character sequence
NullStr == <<"\\0">>

----------------------------------------------------------------------------
(* enum XHRStates                                           sse.ts:3-8     *)

INITIALIZING == -1
CONNECTING == 0
OPEN == 1
CLOSED == 2

\* XMLHttpRequest.readyState values the engine can observe
XHR_UNSENT == 0
XHR_OPENED == 1
XHR_LOADING == 3
XHR_DONE == 4

----------------------------------------------------------------------------
(* SSE._parseEventChunk                                     sse.ts:222-255 *)

\* the object literal e of line 227
NewEventFields == [id |-> NullStr, retry |-> NullStr, data |-> <<>>, event |-> S_message]

\* the body of the forEach of lines 229-249, for one line
ParseLine(e, rawLine) ==
    LET line  == trimEnd(rawLine)
        index == indexOf(line, FIELD_SEPARATOR)
        field == Substring(line, 0, index)
        value == trimLeft(Substring(line, index + 1, Len(line)))
    IN  IF index <= 0 THEN e
        ELSE IF field = S_data THEN [e EXCEPT !.data = @ \o value]
        ELSE IF field = S_id THEN [e EXCEPT !.id = value]
        ELSE IF field = S_retry THEN [e EXCEPT !.retry = value]
        ELSE IF field = S_event THEN [e EXCEPT !.event = value]
        ELSE e

RECURSIVE ParseLines(_, _)
ParseLines(e, lines) ==
    IF lines = <<>> THEN e ELSE ParseLines(ParseLine(e, Head(lines)), Tail(lines))

\* the dispatch envelope: kind tells which statement of the engine built it
MkEvent(kind, type, data, id, rs) ==
    [kind |-> kind, type |-> type, data |-> data, id |-> id, readyState |-> rs]

NoEvent == MkEvent("null", <<>>, <<>>, NullStr, INITIALIZING)

\* NoEvent stands for the null of line 224
_parseEventChunk(chunk) ==
    IF chunk = <<>> THEN NoEvent
    ELSE LET e == ParseLines(NewEventFields, SplitLines(chunk))
         IN  MkEvent("data", e.event, e.data, e.id, INITIALIZING)

----------------------------------------------------------------------------
(* JSON documents, live-query messages and JSON Patch                      *)
(* (subscription.ts:1-8).  JSON.parse and applyPatch are library calls:    *)
(* a document is a tagged value, and the wire text of a message is one     *)
(* character that abbreviates its JSON text; every other text is not JSON. *)

Obj(n) == [t |-> "object", a |-> n]       \* the document {"a": n}
Num(n) == [t |-> "number", a |-> n]       \* the document n
Null == [t |-> "null", a |-> 0]
Undefined == [t |-> "undefined", a |-> 0]    \* a property that is absent

\* JavaScript truthiness of a document (the && of subscription.ts:42)
Truthy(v) ==
    IF v.t = "object" THEN TRUE
    ELSE IF v.t = "number" THEN v.a # 0
    ELSE FALSE

NoErrors == "null"
SomeErrors == "[{message: 'e'}]"
ConnectionClosed == "[{message: 'connection closed'}]"

Replace(n) == [op |-> "replace", path |-> "/a", value |-> n]
Test(n) == [op |-> "test", path |-> "/a", value |-> n]
ReplaceRoot(n) == [op |-> "replace", path |-> "", value |-> n]

\* interface LiveQueryResponse<T>; patch = <<>> with hasPatch FALSE is an
\* absent patch property
Message(data, errors, hasPatch, patch) ==
    [data |-> data, errors |-> errors, hasPatch |-> hasPatch, patch |-> patch]

NotJSON == Message(Undefined, "SyntaxError", FALSE, <<>>)

\* JSON.parse(dataEvent.data) as LiveQueryResponse<T>     subscription.ts:38
JSONparse(s) ==
    IF s = <<"A">> THEN Message(Obj(1), NoErrors, FALSE, <<>>)
    ELSE IF s = <<"B">> THEN Message(Obj(3), NoErrors, FALSE, <<>>)
    ELSE IF s = <<"P">> THEN Message(Undefined, NoErrors, TRUE, <<Replace(2)>>)
    ELSE IF s = <<"T">> THEN Message(Undefined, NoErrors, TRUE, <<Replace(2), Test(9)>>)
    ELSE IF s = <<"Z">> THEN Message(Num(0), NoErrors, FALSE, <<>>)
    ELSE IF s = <<"R">> THEN Message(Undefined, NoErrors, TRUE, <<ReplaceRoot(5)>>)
    ELSE IF s = <<"N">> THEN Message(Null, SomeErrors, FALSE, <<>>)
    ELSE IF s = <<"M">> THEN Message(Null, NoErrors, TRUE, <<Replace(2)>>)
    ELSE IF s = <<"Q">> THEN Message(Obj(7), NoErrors, TRUE, <<Replace(2)>>)
    ELSE NotJSON

\* one JSON Patch operation: replace of the member a or of the whole
\* document, or a test of the member a; ok is FALSE when the operation
\* fails (a test that does not match)
ApplyOperation(doc, operation) ==
    IF operation.op = "replace"
    THEN IF operation.path = ""
         THEN [ok |-> TRUE, doc |-> Num(operation.value)]
         ELSE [ok |-> TRUE, doc |-> [doc EXCEPT !.a = operation.value]]
    ELSE [ok |-> doc.a = operation.value, doc |-> doc]

\* applyPatch(document, patch).newDocument: the operations in order; ok is
\* FALSE when one of them failed, which the library reports by throwing
RECURSIVE applyPatch(_, _)
applyPatch(doc, patch) ==
    IF patch = <<>> THEN [ok |-> TRUE, doc |-> doc]
    ELSE LET r == ApplyOperation(doc, Head(patch))
         IN  IF r.ok THEN applyPatch(r.doc, Tail(patch)) ELSE [ok |-> FALSE, doc |-> doc]

----------------------------------------------------------------------------
(* The listener registry (sse.ts:65, 81-100): a function from the types    *)
(* that have an entry to the sequence of their callbacks                   *)

\* the callbacks registered for a type; <<>> stands for the undefined of
\* this.listeners[type]
CallbacksOf(l, type) == IF type \in DOMAIN l THEN l[type] ELSE <<>>

\* a registration that skips the test of line 84
addEventListener_always(l, type, listener) ==
    [t \in DOMAIN l \cup {type} |->
        IF t = type THEN Append(CallbacksOf(l, type), listener) ELSE l[t]]

\* SSE.addEventListener                                      sse.ts:81-87
addEventListener(l, type, listener) ==
    LET cur == CallbacksOf(l, type)
    IN  [t \in DOMAIN l \cup {type} |->
            IF t # type THEN l[t]
            ELSE IF \E k \in DOMAIN cur : cur[k] = listener THEN cur
            ELSE Append(cur, listener)]

\* SSE.removeEventListener                                   sse.ts:89-100
removeEventListener(l, type, listener) ==
    IF type \notin DOMAIN l THEN l
    ELSE LET filteredListeners == SelectSeq(l[type], LAMBDA lis : lis # listener)
         IN  IF Len(filteredListeners) = 0
             THEN [t \in DOMAIN l \ {type} |-> l[t]]
             ELSE [t \in DOMAIN l |-> IF t = type THEN filteredListeners ELSE l[t]]

\* no registry call was made yet
NoCall == [type |-> <<>>, callback |-> ""]

----------------------------------------------------------------------------
(* State                                                                   *)

VARIABLES
    client,         \* "sse": a caller that uses class SSE directly;
                    \* "subscribe": a caller of subscribe();
                    \* "listeners": a caller that registers and removes
                    \* listeners on an SSE it uses directly
    text,           \* the text the server will send, in full
    status,         \* xhr.status of the response
    closeOn,        \* client "sse": the type of event whose listener calls
                    \* close(), or <<>> when no listener does
    unsubAt,        \* client "subscribe": the number of the onData call
                    \* inside which the caller invokes the teardown, 0: none
    abortNotifies,  \* whether xhr.abort() raises its readystatechange and
                    \* abort callbacks before it returns (as XMLHttpRequest
                    \* does for a request in flight)
    readyState,     \* SSE.readyState                            sse.ts:66
    chunk,          \* SSE.chunk                                 sse.ts:67
    progress,       \* SSE.progress                              sse.ts:68
    xhr,            \* whether SSE.xhr holds a transport         sse.ts:69
    xhrReadyState,  \* xhr.readyState of the transport
    received,       \* length of xhr.responseText
    doneNotified,   \* the transport raised readystatechange for DONE
    finalFired,     \* the transport raised load or error
    progressCalls,  \* number of progress callbacks raised
    aborts,         \* number of calls of xhr.abort()
    dispatched,     \* every event passed to SSE.dispatchEvent, in order
    lastValue,      \* subscribe's lastValue                subscription.ts:23
    onDataCalls,    \* every call of onData, in order
    subscribed,     \* subscribe() has returned its teardown
    torndown,       \* the teardown has been invoked
    op,             \* the operation or callback that ran last
    threw,          \* "" or the exception that escaped from op
    escaped,        \* the exceptions that escaped so far
    listeners,      \* SSE.listeners: the callbacks of each type that
                    \* has an entry, in order                    sse.ts:65
    called,         \* the arguments of the last addEventListener or
                    \* removeEventListener call
    invoked         \* the invocations of registered callbacks made by
                    \* the operation or callback that ran last, in
                    \* order: the callback and the number of the
                    \* dispatchEvent call that made it

config == <<client, text, status, closeOn, unsubAt, abortNotifies>>
engine == <<readyState, chunk, progress, xhr>>
wire == <<xhrReadyState, received, doneNotified, finalFired, progressCalls, aborts>>
history ==
    <<dispatched, lastValue, onDataCalls, subscribed, torndown, op, threw, escaped, invoked>>
registry == <<listeners, called>>
vars == <<config, engine, wire, history, registry>>

\* The state a handler works on.  entry is the engine's ready state when
\* the running operation or callback began, thrown the exception in flight.
World ==
    [readyState |-> readyState, chunk |-> chunk, progress |-> progress,
     xhr |-> xhr, xhrReadyState |-> xhrReadyState, aborts |-> aborts,
     dispatched |-> dispatched, lastValue |-> lastValue,
     onDataCalls |-> onDataCalls, torndown |-> torndown,
     invoked |-> <<>>, entry |-> readyState, thrown |-> ""]

Throw(w, exception) == [w EXCEPT !.thrown = exception]

----------------------------------------------------------------------------
(* Handlers.  Each maps the world before a call to the world after it;     *)
(* once an exception is in flight the remaining statements are skipped.    *)

RECURSIVE dispatchEvent(_, _)
RECURSIVE close(_)

\* the statements after a call run unless the call threw
Then(w, rest(_)) == IF w.thrown # "" THEN w ELSE rest(w)

\* the record kept of one dispatchEvent call: the event, the engine's ready
\* state at that moment and when the running callback began
Dispatched(w, e) ==
    [kind |-> e.kind, type |-> e.type, data |-> e.data, id |-> e.id,
     readyState |-> e.readyState, at |-> w.readyState, entry |-> w.entry]

\* SSE._setReadyState                                       sse.ts:157-162
_setReadyState(w, state) ==
    dispatchEvent([w EXCEPT !.readyState = state],
                  MkEvent("readystatechange", S_readystatechange, <<>>, NullStr, state))

\* SSE._checkStreamClosed                                   sse.ts:257-265
_checkStreamClosed(w) ==
    IF ~w.xhr THEN w
    ELSE IF w.xhrReadyState = XHR_DONE THEN _setReadyState(w, CLOSED)
    ELSE w

\* SSE._onStreamAbort                                       sse.ts:171-174
_onStreamAbort(w) ==
    Then(dispatchEvent(w, MkEvent("abort", S_abort, <<>>, NullStr, INITIALIZING)), close)

\* xhr.abort() of line 129.  A request in flight becomes DONE and, when the
\* transport notifies, its onreadystatechange and onabort handlers (wired at
\* lines 106 and 110) run before abort() returns; the transport ends UNSENT
\* and raises nothing afterwards.
abort(w) ==
    LET w1 == [w EXCEPT !.aborts = @ + 1]
        w2 == [w1 EXCEPT !.xhrReadyState = XHR_DONE]
        w3 == IF abortNotifies THEN _onStreamAbort(_checkStreamClosed(w2)) ELSE w2
    IN  IF w.xhrReadyState \in {XHR_OPENED, XHR_LOADING}
        THEN [w3 EXCEPT !.xhrReadyState = XHR_UNSENT]
        ELSE [w1 EXCEPT !.xhrReadyState = XHR_UNSENT]

\* SSE.close                                                sse.ts:124-132
close(w) ==
    IF w.readyState = CLOSED THEN w
    ELSE LET w1 == IF w.xhr THEN abort(w) ELSE w
             w2 == [w1 EXCEPT !.xhr = FALSE]
         IN  _setReadyState(w2, CLOSED)

\* the function subscribe() returns                     subscription.ts:61
teardown(w) == close([w EXCEPT !.torndown = TRUE])

\* the caller's onData: it records the call and, on the call the caller
\* chose, invokes the teardown before it returns
onData(w, value, errors, src, wireText) ==
    LET call == [value |-> value, errors |-> errors, src |-> src,
                 wire |-> wireText, afterTeardown |-> w.torndown]
        w1   == [w EXCEPT !.onDataCalls = Append(@, call)]
    IN  IF unsubAt = Len(w1.onDataCalls) THEN teardown(w1) ELSE w1

\* a `next` listener for which a message carrying a patch has no data
nextListener_dropData(w, e) ==
    LET payload == JSONparse(e.data)
        patching == payload.hasPatch /\ Truthy(w.lastValue)
        patched == applyPatch(w.lastValue, payload.patch)
        value == IF patching THEN patched.doc
                 ELSE IF payload.hasPatch THEN Null
                 ELSE IF payload.data # Null THEN payload.data
                 ELSE Null
    IN  IF payload = NotJSON THEN Throw(w, "SyntaxError")
        ELSE IF patching /\ ~patched.ok THEN Throw(w, "PatchError")
        ELSE Then(onData(w, value, payload.errors, "next", e.data),
                  LAMBDA v : [v EXCEPT !.lastValue = value])

\* the listener of `next`                               subscription.ts:36-52
nextListener(w, e) ==
    LET payload == JSONparse(e.data)
        patching == payload.hasPatch /\ Truthy(w.lastValue)
        patched == applyPatch(w.lastValue, payload.patch)
        value == IF patching THEN patched.doc
                 ELSE IF payload.data # Null THEN payload.data
                 ELSE Null
    IN  IF payload = NotJSON THEN Throw(w, "SyntaxError")
        ELSE IF patching /\ ~patched.ok THEN Throw(w, "PatchError")
        ELSE Then(onData(w, value, payload.errors, "next", e.data),
                  LAMBDA v : [v EXCEPT !.lastValue = value])

\* an `error` listener that closes the engine and tells the caller nothing
errorListener_silent(w) == close(w)

\* the listener of `error`                              subscription.ts:54-57
errorListener(w) ==
    onData(close(w), Null, ConnectionClosed, "error", <<>>)

\* lines 147-152 for the callbacks of the registry: every callback of the
\* event's type is invoked, in order (they only take note of the event; the
\* engine's events are not cancelable, so defaultPrevented stays false)
InvokeListeners(w, e) ==
    IF e.type \in DOMAIN listeners
    THEN [w EXCEPT !.invoked = @ \o
            [k \in DOMAIN listeners[e.type] |->
                [callback |-> listeners[e.type][k], event |-> Len(w.dispatched)]]]
    ELSE w

\* SSE.dispatchEvent (sse.ts:134-155) with the listeners the client
\* registered: subscribe()'s two listeners, the callbacks of the registry,
\* or the listener of closeOn that calls close().  The engine has no
\* on<type> property and no listener prevents the default.
dispatchEvent(w, e) ==
    LET w1 == [w EXCEPT !.dispatched = Append(@, Dispatched(w, e))]
    IN  IF client = "subscribe"
        THEN IF e.type = S_next THEN nextListener(w1, e)
             ELSE IF e.type = S_error THEN errorListener(w1)
             ELSE w1
        ELSE IF client = "listeners" THEN InvokeListeners(w1, e)
        ELSE IF e.type = closeOn THEN close(w1) ELSE w1

\* SSE.stream (sse.ts:102-122).  xhr.open() raises onreadystatechange while
\* this.xhr is still unset, which _checkStreamClosed ignores.
stream(w) ==
    Then(_setReadyState(w, CONNECTING),
         LAMBDA v : [v EXCEPT !.xhr = TRUE, !.xhrReadyState = XHR_OPENED])

\* a failure handler that dispatches the error and leaves the engine open
_onStreamFailure_noClose(w) ==
    dispatchEvent(w, MkEvent("error", S_error, <<>>, NullStr, INITIALIZING))

\* SSE._onStreamFailure                                     sse.ts:164-169
_onStreamFailure(w) ==
    Then(dispatchEvent(w, MkEvent("error", S_error, <<>>, NullStr, INITIALIZING)), close)

\* lines 196-203: the pending chunk is parsed and, unless it is empty,
\* dispatched and then cleared
FlushChunk(w, pending) ==
    IF pending = <<>> THEN w
    ELSE Then(dispatchEvent(w, _parseEventChunk(pending)),
              LAMBDA v : [v EXCEPT !.chunk = <<>>])

\* the body of the forEach of lines 195-205, for one part
ProcessPart(w, part) ==
    IF Len(trim(part)) = 0 THEN FlushChunk(w, trim(w.chunk))
    ELSE [w EXCEPT !.chunk = @ \o part]

RECURSIVE ForEachPart(_, _)
ForEachPart(w, parts) ==
    IF parts = <<>> \/ w.thrown # "" THEN w
    ELSE ForEachPart(ProcessPart(w, Head(parts)), Tail(parts))

\* lines 186-190
OpenIfConnecting(w) ==
    IF w.readyState # CONNECTING THEN w
    ELSE Then(dispatchEvent(w, MkEvent("open", S_open, <<>>, NullStr, INITIALIZING)),
              LAMBDA v : _setReadyState(v, OPEN))

\* a progress callback that never advances the consumed length
ConsumeText_noAdvance(w, responseText) ==
    LET data == Substring(responseText, w.progress, Len(responseText))
    IN  IF ~w.xhr THEN Throw(w, "TypeError")
        ELSE ForEachPart(w, SplitBlankLines(data))

\* lines 192-205; reading this.xhr.responseText when a listener released
\* the transport is a TypeError
ConsumeText(w, responseText) ==
    LET data == Substring(responseText, w.progress, Len(responseText))
    IN  IF ~w.xhr THEN Throw(w, "TypeError")
        ELSE ForEachPart([w EXCEPT !.progress = @ + Len(data)], SplitBlankLines(data))

\* SSE._onStreamProgress                                    sse.ts:176-206
_onStreamProgress(w, responseText) ==
    IF ~w.xhr THEN w
    ELSE IF status # 200 THEN _onStreamFailure(w)
    ELSE Then(OpenIfConnecting(w), LAMBDA v : ConsumeText(v, responseText))

\* SSE._onStreamLoaded                                      sse.ts:208-217
_onStreamLoaded(w, responseText) ==
    Then(_onStreamProgress(w, responseText), LAMBDA v : FlushChunk(v, v.chunk))

----------------------------------------------------------------------------
(* The texts a server sends and the callers' choices                       *)

\* the largest number of the onData call inside which the caller tears down
MaxUnsubAt == 1

\* the largest number of progress callbacks the transport raises before
\* it completes
MaxProgress == 2

Field(name, value) == name \o <<FIELD_SEPARATOR>> \o value

\* one `next` event carrying the message whose wire text is c
NextEvent(c) == Field(S_event, S_next) \o <<LF>> \o Field(S_data, <<c>>) \o <<LF, LF>>

SseTexts ==
    { Field(S_data, <<"a">>) \o <<LF, LF>> \o Field(S_data, <<"b">>) \o <<LF, LF>>,
      Field(S_data, <<"a", SP, "b">>) \o <<LF, LF>>,
      Field(S_id, <<"1">>) \o <<CR, LF>> \o Field(S_data, <<"x">>) \o <<CR, LF, CR, LF>>,
      <<FIELD_SEPARATOR, "c", LF>> \o Field(S_data, <<"a">>) \o <<LF>> \o Field(S_data, <<"b">>) }

SubscribeTexts ==
    { NextEvent("A") \o NextEvent("P"),
      NextEvent("A") \o NextEvent("T"),
      NextEvent("Z") \o NextEvent("R"),
      NextEvent("P") \o NextEvent("B"),
      NextEvent("N") \o NextEvent("P"),
      NextEvent("M") \o NextEvent("Q") }

\* the text sent to a caller that registers listeners: one event, which no
\* blank line follows
ListenerTexts == { <<"d">> }

\* the types that caller registers listeners for, and its callbacks
ListenerTypes == {S_readystatechange, S_message}
Callbacks == {"f", "g"}

\* the event types on which a direct caller's listener may call close()
CloseOnChoices == {NullStr, S_open, S_message, S_error}

Statuses == {200, 500}

----------------------------------------------------------------------------
(* Init: the state after `new SSE(url, options)` (sse.ts:65-79), before    *)
(* subscribe() runs (subscription.ts:23)                                   *)

Init ==
    /\ client \in {"sse", "subscribe", "listeners"}
    /\ text \in (IF client = "sse" THEN SseTexts
                 ELSE IF client = "subscribe" THEN SubscribeTexts
                 ELSE ListenerTexts)
    /\ status \in (IF client = "listeners" THEN {200} ELSE Statuses)
    /\ closeOn \in (IF client = "sse" THEN CloseOnChoices ELSE {NullStr})
    /\ unsubAt \in (IF client = "subscribe" THEN 0..MaxUnsubAt ELSE {0})
    /\ abortNotifies \in (IF client = "listeners" THEN {FALSE} ELSE BOOLEAN)
    /\ readyState = INITIALIZING
    /\ chunk = <<>>
    /\ progress = 0
    /\ xhr = FALSE
    /\ xhrReadyState = XHR_UNSENT
    /\ received = 0
    /\ doneNotified = FALSE
    /\ finalFired = FALSE
    /\ progressCalls = 0
    /\ aborts = 0
    /\ dispatched = <<>>
    /\ lastValue = Null
    /\ onDataCalls = <<>>
    /\ subscribed = FALSE
    /\ torndown = FALSE
    /\ op = "new"
    /\ threw = ""
    /\ escaped = {}
    /\ listeners = <<>>
    /\ called = NoCall
    /\ invoked = <<>>

\* the world a call left behind becomes the next state
Commit(w, name) ==
    /\ readyState' = w.readyState
    /\ chunk' = w.chunk
    /\ progress' = w.progress
    /\ xhr' = w.xhr
    /\ xhrReadyState' = w.xhrReadyState
    /\ aborts' = w.aborts
    /\ dispatched' = w.dispatched
    /\ lastValue' = w.lastValue
    /\ onDataCalls' = w.onDataCalls
    /\ torndown' = w.torndown
    /\ invoked' = w.invoked
    /\ op' = name
    /\ threw' = w.thrown
    /\ escaped' = IF w.thrown = "" THEN escaped ELSE escaped \cup {w.thrown}

\* xhr.responseText once n more characters have arrived
ResponseText(n) == Substring(text, 0, received + n)

----------------------------------------------------------------------------
(* Calls of the client                                                     *)

\* a direct caller calls stream(), in the state its contract requires
Stream ==
    /\ client \in {"sse", "listeners"}
    /\ readyState = INITIALIZING
    /\ Commit(stream(World), "stream")
    /\ UNCHANGED <<config, registry, received, doneNotified, finalFired, progressCalls, subscribed>>

\* a direct caller calls close(), at any time
Close ==
    /\ client \in {"sse", "listeners"}
    /\ Commit(close(World), "close")
    /\ UNCHANGED <<config, registry, received, doneNotified, finalFired, progressCalls, subscribed>>

\* subscribe(): the two listeners are registered and stream() is called
\* (subscription.ts:10-62)
Subscribe ==
    /\ client = "subscribe"
    /\ ~subscribed
    /\ subscribed' = TRUE
    /\ Commit(stream(World), "subscribe")
    /\ UNCHANGED <<config, registry, received, doneNotified, finalFired, progressCalls>>

\* the caller invokes the function subscribe() returned
Unsubscribe ==
    /\ client = "subscribe"
    /\ subscribed
    /\ Commit(teardown(World), "unsubscribe")
    /\ UNCHANGED <<config, registry, received, doneNotified, finalFired, progressCalls, subscribed>>

\* a caller registers a callback for a type
AddEventListener ==
    /\ client = "listeners"
    /\ \E type \in ListenerTypes, listener \in Callbacks :
          /\ listeners' = addEventListener(listeners, type, listener)
          /\ called' = [type |-> type, callback |-> listener]
    /\ op' = "addEventListener"
    /\ threw' = ""
    /\ invoked' = <<>>
    /\ UNCHANGED <<config, engine, wire, dispatched, lastValue, onDataCalls,
                   subscribed, torndown, escaped>>

\* a caller removes a callback of a type
RemoveEventListener ==
    /\ client = "listeners"
    /\ \E type \in ListenerTypes, listener \in Callbacks :
          /\ listeners' = removeEventListener(listeners, type, listener)
          /\ called' = [type |-> type, callback |-> listener]
    /\ op' = "removeEventListener"
    /\ threw' = ""
    /\ invoked' = <<>>
    /\ UNCHANGED <<config, engine, wire, dispatched, lastValue, onDataCalls,
                   subscribed, torndown, escaped>>

----------------------------------------------------------------------------
(* Callbacks of the transport (wired at sse.ts:106-110).  A transport      *)
(* raises callbacks from send() until it is aborted; progress while the    *)
(* body arrives; once each, readystatechange for DONE and load or error.   *)

\* xhr.onprogress: n more characters arrived (possibly none)
OnProgress ==
    /\ xhrReadyState \in {XHR_OPENED, XHR_LOADING}
    /\ progressCalls < MaxProgress
    /\ progressCalls' = progressCalls + 1
    /\ \E n \in 0..(Len(text) - received) :
          /\ received' = received + n
          /\ Commit(_onStreamProgress([World EXCEPT !.xhrReadyState = XHR_LOADING],
                                      ResponseText(n)), "progress")
    /\ UNCHANGED <<config, registry, doneNotified, finalFired, subscribed>>

\* xhr.onreadystatechange: the transport reports LOADING, or DONE
OnReadyStateChange ==
    /\ xhrReadyState # XHR_UNSENT
    /\ ~doneNotified
    /\ \E s \in {XHR_LOADING, XHR_DONE} :
          /\ s = XHR_LOADING => xhrReadyState = XHR_OPENED
          /\ doneNotified' = (s = XHR_DONE)
          /\ Commit(_checkStreamClosed([World EXCEPT !.xhrReadyState = s]),
                    "readystatechange")
    /\ UNCHANGED <<config, registry, received, finalFired, progressCalls, subscribed>>

\* xhr.onload: the response is complete; the last characters may arrive
\* with it
OnLoad ==
    /\ xhrReadyState # XHR_UNSENT
    /\ ~finalFired
    /\ finalFired' = TRUE
    /\ \E n \in 0..(Len(text) - received) :
          /\ received' = received + n
          /\ Commit(_onStreamLoaded([World EXCEPT !.xhrReadyState = XHR_DONE],
                                    ResponseText(n)), "load")
    /\ UNCHANGED <<config, registry, doneNotified, progressCalls, subscribed>>

\* xhr.onerror: the request failed
OnError ==
    /\ xhrReadyState # XHR_UNSENT
    /\ ~finalFired
    /\ finalFired' = TRUE
    /\ Commit(_onStreamFailure([World EXCEPT !.xhrReadyState = XHR_DONE]), "error")
    /\ UNCHANGED <<config, registry, received, doneNotified, progressCalls, subscribed>>

Next ==
    \/ Stream
    \/ Close
    \/ Subscribe
    \/ Unsubscribe
    \/ AddEventListener
    \/ RemoveEventListener
    \/ OnProgress
    \/ OnReadyStateChange
    \/ OnLoad
    \/ OnError

Spec == Init /\ [][Next]_vars

----------------------------------------------------------------------------
(* Observations on the history                                             *)

\* what a listener sees of a data event
Seen(d) == [type |-> d.type, data |-> d.data, id |-> d.id]

\* the data events of a dispatch log, in order
DataEvents(log) ==
    LET sel == SelectSeq(log, LAMBDA d : d.kind = "data")
    IN  [i \in 1..Len(sel) |-> Seen(sel[i])]

\* the ready states the engine was set to, in order (every assignment of
\* readyState is in _setReadyState, which dispatches readystatechange)
ReadyStates(log) ==
    LET sel == SelectSeq(log, LAMBDA d : d.kind = "readystatechange")
    IN  <<INITIALIZING>> \o [i \in 1..Len(sel) |-> sel[i].readyState]

\* how many events of a kind were dispatched
Count(log, kind) == Cardinality({i \in DOMAIN log : log[i].kind = kind})

\* how many readystatechange events carried CLOSED
ClosedEvents(log) ==
    Cardinality({i \in DOMAIN log :
                    log[i].kind = "readystatechange" /\ log[i].readyState = CLOSED})

\* the events dispatched by the last step
Appended(before, after) == SubSeq(after, Len(before) + 1, Len(after))

\* an engine on which stream() has just been called
ConnectedWorld ==
    [readyState |-> CONNECTING, chunk |-> <<>>, progress |-> 0,
     xhr |-> TRUE, xhrReadyState |-> XHR_DONE, aborts |-> 0,
     dispatched |-> <<>>, lastValue |-> Null,
     onDataCalls |-> <<>>, torndown |-> FALSE,
     invoked |-> <<>>, entry |-> CONNECTING, thrown |-> ""]

\* the data events the engine dispatches when t arrives whole with load
SingleIncrement(t) == DataEvents(_onStreamLoaded(ConnectedWorld, t).dispatched)

\* the run was a plain delivery of text to passive listeners
PlainDelivery ==
    /\ client = "sse"
    /\ closeOn = NullStr
    /\ status = 200
    /\ aborts = 0
    /\ escaped = {}

----------------------------------------------------------------------------
(* Claims                                                                  *)

\* C1: for every text and every way of cutting it into the increments of
\* successive progress callbacks followed by one load callback, the data
\* events dispatched (type, data, id) are those dispatched when the whole
\* text arrives in a single increment.
C1_SplitInvariance ==
    (op = "load" /\ PlainDelivery)
        => DataEvents(dispatched) = SingleIncrement(Substring(text, 0, received))

\* C2: once the engine is CLOSED, no later callback of the transport
\* dispatches an open event or a data event.
C2_NoDispatchAfterClosed ==
    \A i \in DOMAIN dispatched :
        dispatched[i].kind \in {"open", "data"} => dispatched[i].entry # CLOSED

\* the moves of the ready state the state machine grants: the chain, the
\* early failure, and close() before stream() (close() is safe at any time)
AllowedMoves ==
    { <<INITIALIZING, CONNECTING>>, <<CONNECTING, OPEN>>, <<OPEN, CLOSED>>,
      <<CONNECTING, CLOSED>>, <<INITIALIZING, CLOSED>> }

\* C3: the ready state only moves forward along INITIALIZING, CONNECTING,
\* OPEN, CLOSED; it never moves backwards and never leaves CLOSED.
C3_ReadyStateMonotonic ==
    LET rs == ReadyStates(dispatched)
    IN  \A i \in 1..(Len(rs) - 1) :
            rs[i + 1] = rs[i] \/ <<rs[i], rs[i + 1]>> \in AllowedMoves

\* C4: over the life of an engine at most one readystatechange carrying
\* CLOSED is dispatched (exactly one once it is CLOSED), and a close() made
\* when the engine is already CLOSED dispatches nothing and aborts nothing.
C4_CloseOnce ==
    [][ /\ ClosedEvents(dispatched') <= 1
        /\ readyState' = CLOSED => ClosedEvents(dispatched') = 1
        /\ (op' \in {"close", "unsubscribe"} /\ readyState = CLOSED)
              => (dispatched' = dispatched /\ aborts' = aborts) ]_vars

\* the onData calls made for `next` messages, in order
NextCalls == SelectSeq(onDataCalls, LAMBDA c : c.src = "next")

\* the onData calls that report the closed connection
ClosedCalls ==
    SelectSeq(onDataCalls, LAMBDA c : c.value = Null /\ c.errors = ConnectionClosed)

\* whether a previous value exists: it was emitted and is not null
Exists(v) == v.t \notin {"null", "undefined"}

\* the value C5 prescribes for a message, given the value emitted before
Prescribed(message, previous) ==
    IF message.hasPatch /\ Exists(previous) THEN applyPatch(previous, message.patch).doc
    ELSE IF message.data # Null THEN message.data
    ELSE Null

\* C5: the value passed to onData for a `next` message is the patch applied
\* to the previous emitted value when the message carries a patch and a
\* previous non-null value exists, otherwise the message's data when it is
\* not null, otherwise null.
C5_Reconciliation ==
    \A i \in DOMAIN NextCalls :
        NextCalls[i].value =
            Prescribed(JSONparse(NextCalls[i].wire),
                       IF i = 1 THEN Null ELSE NextCalls[i - 1].value)

\* C6: in a subscription every error event of the engine is answered by
\* exactly one onData(null, [connection closed]), and the engine is CLOSED
\* from then on.
C6_ErrorReportedOnce ==
    client = "subscribe" =>
        /\ Len(ClosedCalls) = Count(dispatched, "error")
        /\ Count(dispatched, "error") > 0 => readyState = CLOSED

\* a subscription whose transport failed: the error event was answered and
\* the engine is closed
C6_Witness ==
    /\ client = "subscribe"
    /\ op = "error"
    /\ Count(dispatched, "error") = 1
    /\ Len(ClosedCalls) = 1
    /\ readyState = CLOSED

\* C7: after the teardown was invoked onData is never invoked again, and
\* invoking the teardown raises nothing.
C7_SilentAfterTeardown ==
    /\ \A i \in DOMAIN onDataCalls : ~onDataCalls[i].afterTeardown
    /\ op = "unsubscribe" => threw = ""

\* the text received so far
ReceivedText == Substring(text, 0, received)

\* the text after the last blank-line delimiter, trimmed
TrailingChunk(t) == LET parts == SplitBlankLines(t) IN trim(parts[Len(parts)])

\* how often a data event occurs among the dispatched ones
Occurrences(e) ==
    Cardinality({i \in DOMAIN DataEvents(dispatched) : DataEvents(dispatched)[i] = e})

\* C8: when load is handled and the text (with LF line breaks) ends with an
\* event that no blank line follows, that event is dispatched exactly once
\* and the pending chunk is empty when load returns.
C8_TrailingEventOnce ==
    (/\ op = "load"
     /\ PlainDelivery
     /\ \A i \in DOMAIN ReceivedText : ReceivedText[i] # CR
     /\ TrailingChunk(ReceivedText) # <<>>)
        => /\ Occurrences(Seen(_parseEventChunk(TrailingChunk(ReceivedText)))) = 1
           /\ chunk = <<>>

\* C9: a patch that fails to apply does not escape from the `next` handler
\* as an exception (it is reported through onData, and lastValue is kept).
C9_PatchFailureSurfaced ==
    [][ /\ threw' # "PatchError"
        /\ "PatchError" \notin escaped' ]_vars

\* a step that handles a transport failure: the error callback, or a
\* progress callback of a response whose status is not 200
FailureStep ==
    \/ op' = "error"
    \/ op' = "progress" /\ status # 200 /\ xhr

\* what every failure step does, whatever the state before
FailureEffect ==
    /\ Count(Appended(dispatched, dispatched'), "error") = 1
    /\ Count(Appended(dispatched, dispatched'), "open") = 0
    /\ Count(Appended(dispatched, dispatched'), "data") = 0
    /\ readyState' = CLOSED

\* C10 as stated: every transport failure dispatches exactly one error
\* event, no open and no data event, aborts the transport and leaves the
\* engine CLOSED.
C10_FailureAlwaysAborts ==
    [][ FailureStep => (FailureEffect /\ aborts' = aborts + 1) ]_vars

\* C10 as amended: the transport is aborted unless the engine was already
\* CLOSED when the callback began.
C10_FailureCloses ==
    [][ FailureStep =>
            /\ FailureEffect
            /\ readyState # CLOSED => aborts' = aborts + 1 ]_vars

\* an error callback that found the engine open has aborted the transport
\* and closed the engine
C10_Witness ==
    /\ op = "error"
    /\ aborts = 1
    /\ readyState = CLOSED
    /\ Count(dispatched, "error") = 1

\* C11: when the load callback is handled while the engine is CONNECTING or
\* OPEN, the engine is CLOSED once the callback has returned.
C11_LoadCloses ==
    [][ (op' = "load" /\ readyState \in {CONNECTING, OPEN}) => readyState' = CLOSED ]_vars

\* the events dispatched before the i-th one
Before(log, i) == SubSeq(log, 1, i - 1)

\* whether a dispatch log records the engine being set to OPEN
PassedOpen(log) ==
    \E j \in DOMAIN log : log[j].kind = "readystatechange" /\ log[j].readyState = OPEN

\* C12: every dispatch of a data event is preceded by exactly one dispatch
\* of an open event and by the engine being set to OPEN, whatever the order
\* of the progress, ready-state-change and load callbacks.
C12_OpenBeforeData ==
    \A i \in DOMAIN dispatched :
        dispatched[i].kind = "data" =>
            /\ Count(Before(dispatched, i), "open") = 1
            /\ PassedOpen(Before(dispatched, i))

\* the line breaks of the wire format
LineBreaks == {<<LF>>, <<CR>>, <<CR, LF>>}

\* an event of two field lines, id:1 and data:x, each ended by the line
\* break br, followed by the blank line that ends the event
TwoFieldLines(br) ==
    Field(S_id, <<"1">>) \o br \o Field(S_data, <<"x">>) \o br \o br

\* C13: only a blank line ends an event: two field lines separated by one
\* line break of any variant (LF, CR or CRLF) are parsed into the same
\* dispatched event, which carries the fields of both lines.
C13_SingleBreakKeepsEvent ==
    \A br \in LineBreaks :
        (/\ op = "load"
         /\ PlainDelivery
         /\ progressCalls = 0
         /\ text = TwoFieldLines(br)
         /\ received = Len(text))
            => DataEvents(dispatched)
                 = << [type |-> S_message, data |-> <<"x">>, id |-> <<"1">>] >>

\* the text after the last blank-line delimiter of t
UnterminatedTail(t) == LET parts == SplitBlankLines(t) IN parts[Len(parts)]

\* C15: after every progress callback the pending chunk is exactly the
\* unterminated tail of the text received so far: the text after the last
\* blank-line delimiter received, holding no blank-line delimiter itself.
C15_ChunkIsTail ==
    (op = "progress" /\ PlainDelivery)
        => /\ chunk = UnterminatedTail(ReceivedText)
           /\ Len(SplitBlankLines(chunk)) = 1

\* C17: while the engine holds its transport and the status is 200, after
\* each progress callback the consumed length equals the length of the
\* transport's cumulative text, so the next callback takes exactly the text
\* that arrived since.
C17_ConsumedAllReceived ==
    (op = "progress" /\ xhr /\ status = 200) => progress = received

\* a second progress callback that brought new text has consumed it
C17_Witness ==
    /\ op = "progress"
    /\ xhr
    /\ status = 200
    /\ progressCalls = 2
    /\ received > 1
    /\ progress = received
    /\ Count(dispatched, "data") > 0

\* C18: whenever the engine is CLOSED it holds no transport reference,
\* whichever path reached CLOSED.
C18_ClosedHoldsNoTransport ==
    readyState = CLOSED => ~xhr

\* the engine was OPEN, all received text consumed, when the step began
IdleOpen ==
    /\ readyState = OPEN
    /\ xhr
    /\ status = 200
    /\ progress = received

\* C19: a progress callback in state OPEN that brings no new text
\* dispatches no event and leaves the pending chunk and the consumed length
\* unchanged, even when the pending chunk holds a partly received event.
C19_EmptyProgressIsNoOp ==
    [][ (op' = "progress" /\ IdleOpen /\ received' = received)
            => /\ dispatched' = dispatched
               /\ chunk' = chunk
               /\ progress' = progress ]_vars

\* the positions, among the events a step dispatched, of the events whose
\* listener calls close()
ClosingDispatches(new) ==
    {i \in DOMAIN new : new[i].kind \in {"open", "data"} /\ new[i].type = closeOn}

\* C20: if a listener calls close() while it is invoked from inside a
\* progress callback (for the open event or for a data event), the engine
\* is CLOSED when the callback returns, the callback does not fail on the
\* released transport, and no further open or data event is dispatched
\* after the close() call.
C20_CloseInsideProgress ==
    [][ LET new == Appended(dispatched, dispatched')
        IN  (/\ op' = "progress"
             /\ client = "sse"
             /\ ClosingDispatches(new) # {})
                => /\ readyState' = CLOSED
                   /\ threw' = ""
                   /\ \A i \in ClosingDispatches(new) : \A j \in DOMAIN new :
                          j > i => new[j].kind \notin {"open", "data"} ]_vars

\* no previous value is stored when the i-th `next` message is handled: it
\* is the first message, or the preceding one emitted null
NoPrevious(i) == i = 1 \/ NextCalls[i - 1].value = Null

\* C16: a `next` message carrying a patch that arrives while no previous
\* value is stored is not patched: the emitted value is the message's data
\* if that is not null and null otherwise, and the stored last value is set
\* to the emitted value, even when it is null.
C16_PatchWithoutPrevious ==
    \A i \in DOMAIN NextCalls :
        (JSONparse(NextCalls[i].wire).hasPatch /\ NoPrevious(i))
            => /\ NextCalls[i].value =
                    (IF JSONparse(NextCalls[i].wire).data # Null
                     THEN JSONparse(NextCalls[i].wire).data
                     ELSE Null)
               /\ i = Len(NextCalls) => lastValue = NextCalls[i].value

\* a first message with a patch and null data emitted null, and the patch
\* message after it emitted its data, which is now the stored value
C16_Witness ==
    /\ Len(NextCalls) = 2
    /\ NextCalls[1].wire = <<"M">>
    /\ NextCalls[1].value = Null
    /\ NextCalls[2].wire = <<"Q">>
    /\ NextCalls[2].value = Obj(7)
    /\ lastValue = Obj(7)

\* the set of callbacks a registry holds for a type
Registered(l, type) == {CallbacksOf(l, type)[k] : k \in DOMAIN CallbacksOf(l, type)}

\* the place of a callback in the sequence of its type
Place(l, type, c) == CHOOSE k \in DOMAIN l[type] : l[type][k] = c

\* no (type, callback) pair is held twice
NoDuplicates(l) ==
    \A type \in DOMAIN l : \A i, j \in DOMAIN l[type] :
        l[type][i] = l[type][j] => i = j

\* no type has an entry with zero callbacks
NoEmptyEntry(l) == \A type \in DOMAIN l : l[type] # <<>>

\* callbacks that stay registered keep their order, and a callback that
\* becomes registered comes after those that were
OrderKept(l, m) ==
    \A type \in DOMAIN l \cap DOMAIN m :
        \A c \in Registered(m, type), d \in Registered(l, type) \cap Registered(m, type) :
            /\ (c \in Registered(l, type) /\ Place(l, type, c) < Place(l, type, d))
                  => Place(m, type, c) < Place(m, type, d)
            /\ c \notin Registered(l, type) => Place(m, type, d) < Place(m, type, c)

\* a call registers or removes its pair and no other
CallEffect(l, m) ==
    /\ op' = "addEventListener" => called'.callback \in Registered(m, called'.type)
    /\ op' = "removeEventListener" => called'.callback \notin Registered(m, called'.type)
    /\ \A type \in ListenerTypes, c \in Callbacks :
          (op' \in {"addEventListener", "removeEventListener"}
              /\ <<type, c>> # <<called'.type, called'.callback>>)
             => (c \in Registered(m, type) <=> c \in Registered(l, type))
    /\ op' \notin {"addEventListener", "removeEventListener"} => m = l

\* the callbacks the n-th dispatchEvent call invoked, in order
InvokedBy(calls, n) ==
    LET sel == SelectSeq(calls, LAMBDA c : c.event = n)
    IN  [k \in DOMAIN sel |-> sel[k].callback]

\* C14: for any sequence of addEventListener and removeEventListener calls
\* the registry holds each (type, callback) pair at most once, in order of
\* first registration, and no entry for a type with zero callbacks; a
\* dispatch of an event invokes each callback registered for its type
\* exactly once, in that order.
C14_RegistryOrderedOnce ==
    [][ client = "listeners" =>
            /\ NoDuplicates(listeners')
            /\ NoEmptyEntry(listeners')
            /\ OrderKept(listeners, listeners')
            /\ CallEffect(listeners, listeners')
            /\ \A n \in (Len(dispatched) + 1)..Len(dispatched') :
                  InvokedBy(invoked', n) = CallbacksOf(listeners, dispatched'[n].type)
            /\ \A k \in DOMAIN invoked' : invoked'[k].event > Len(dispatched) ]_vars

\* g was registered for message before f, both are registered, and the
\* load callback's data event invoked g and then f
C14_Witness ==
    /\ client = "listeners"
    /\ op = "load"
    /\ CallbacksOf(listeners, S_message) = <<"g", "f">>
    /\ S_readystatechange \notin DOMAIN listeners
    /\ dispatched[Len(dispatched)].kind = "data"
    /\ InvokedBy(invoked, Len(dispatched)) = <<"g", "f">>

====
